---- MODULE Spec2Model ----
(***************************************************************************)
(* FIFO page replacement (src/FIFO.py).                                    *)
(*                                                                         *)
(* Two loops implement the replacement:                                    *)
(*   - main(): fixed-size array pre_array with the circular write pointer  *)
(*     current_page, the per-step fault flags page_fault and the snapshot  *)
(*     table total_page;                                                   *)
(*   - visualize_fifo_example(): the array frames with the arrival queue   *)
(*     queue.                                                              *)
(* Spec starts main() after its prompts, on every frame count and          *)
(* reference sequence of the bounds: whatever the input layer accepts, n   *)
(* tokens that int() parses, hence any integers, the value -1 included.    *)
(* visualize_fifo_example() takes no argument; its loop runs on its        *)
(* built-in data only, next to the run of main() on that same data.        *)
(* SessionSpec is the program as started from the command line:            *)
(* the menu, the three prompts of main(), its loop and summary, and the    *)
(* example run of visualize_fifo_example() on its built-in data.           *)
(* Arrays keep the 0-based indices of the source; ref is a sequence, so    *)
(* ref[i] of the source is ref[i + 1] here.                                *)
(***************************************************************************)
EXTENDS Integers, Sequences, FiniteSets

\* ---------------------------------------------------------------- bounds
MaxFrames == 3
MaxRefs == 4
MaxPage == 2

\* ------------------------------------------------------ program constants
\* the value that marks an empty frame
Empty == -1

\* page ids the input layer accepts (int(x) parses "-1" as well)
Pages == Empty..MaxPage

\* the limits of the prompts of main()
MaxFrameCount == 10
MaxRefCount == 20

\* the example data of visualize_fifo_example()
ExampleFrames == 3
ExampleRef == <<7, 0, 1, 2, 0, 3, 0, 4, 2, 3, 0, 3>>

\* the second reference string (scenario A of the specification)
ScenarioARef == <<1, 2, 3, 4, 1, 2, 5, 1, 2, 3, 4, 5>>

VARIABLES
    page_count,         \* number of frames
    ref,                \* reference sequence
    \* ---- main()
    i,                  \* loop index of main(): references processed so far
    pre_array,          \* frame j -> page, Empty when never written
    page_fault,         \* step -> 0/1
    total_page,         \* frame j -> step -> page recorded for the table
    number_page_fault,
    current_page,       \* circular write pointer
    message,            \* what the step printed: "hit", "full" or "empty"
    main_loaded,        \* history: frame j -> time of the last write, 0 = never
    \* ---- visualize_fifo_example()
    step,               \* loop index of the example loop
    frames,
    queue,
    page_faults,
    fault,              \* the flag of the last processed step
    note,               \* "", "add" or "replace"
    crashed,            \* TRUE once an exception left the loop
    viz_loaded,         \* history: frame j -> time of the last write, 0 = never
    \* ---- session
    choice,             \* the menu choice read, "" before it is read
    main_pc,            \* "idle", "ask_frames", "ask_n", "ask_ref", "loop", "done"
    viz_pc,             \* "idle", "loop", "done"
    ended,              \* the program has ended
    ref_count,          \* n of main() as read by the second prompt
    console,            \* the last complaint of the input layer, "" if none
    fault_positions,    \* summary of main(): 1-based steps that faulted
    fault_rate,         \* summary of main(): rate in hundredths of a percent
    viz_rate            \* the rate printed by the example run

sessionVars == <<choice, main_pc, viz_pc, ended, ref_count, console,
                 fault_positions, fault_rate, viz_rate>>

vars == <<page_count, ref, i, pre_array, page_fault, total_page,
          number_page_fault, current_page, message, main_loaded,
          step, frames, queue, page_faults, fault, note, crashed, viz_loaded,
          sessionVars>>

mainVars == <<i, pre_array, page_fault, total_page, number_page_fault,
              current_page, message, main_loaded>>
vizVars == <<step, frames, queue, page_faults, fault, note, crashed, viz_loaded>>

n == Len(ref)
FrameIdx == 0..(page_count - 1)

\* ---------------------------------------------------------------- helpers
\* value in arr
is_in_array(arr, value) == \E j \in DOMAIN arr : arr[j] = value

\* list.index(value): the lowest index holding value
IndexOf_last(arr, value) ==
    CHOOSE j \in DOMAIN arr :
        /\ arr[j] = value
        /\ \A k \in DOMAIN arr : arr[k] = value => k <= j
IndexOf(arr, value) ==
    CHOOSE j \in DOMAIN arr :
        /\ arr[j] = value
        /\ \A k \in DOMAIN arr : arr[k] = value => j <= k

\* the status-table update of step t (0-based) from the frames pre
UpdateTable(tp, pre, t) ==
    [j \in DOMAIN tp |->
        [tp[j] EXCEPT ![t] =
            IF t = 0 THEN pre[j]
            ELSE IF pre[j] # Empty THEN pre[j] ELSE tp[j][t - 1]]]

\* ------------------------------------------------------------------- Init
\* the input is the built-in data of visualize_fifo_example()
IsExampleData(pc, r) == pc = ExampleFrames /\ r = ExampleRef

Inputs ==
    (UNION {[1..m -> Pages] : m \in 1..MaxRefs}) \cup {ExampleRef, ScenarioARef}

Init ==
    /\ page_count \in 1..MaxFrames
    /\ ref \in Inputs
    /\ i = 0
    /\ pre_array = [j \in FrameIdx |-> Empty]
    /\ page_fault = [t \in 0..(n - 1) |-> 0]
    /\ total_page = [j \in FrameIdx |-> [t \in 0..(n - 1) |-> Empty]]
    /\ number_page_fault = 0
    /\ current_page = 0
    /\ message = ""
    /\ main_loaded = [j \in FrameIdx |-> 0]
    /\ step = 0
    /\ frames = IF IsExampleData(page_count, ref)
                THEN [j \in FrameIdx |-> Empty] ELSE <<>>
    /\ queue = <<>>
    /\ page_faults = 0
    /\ fault = FALSE
    /\ note = ""
    /\ crashed = FALSE
    /\ viz_loaded = IF IsExampleData(page_count, ref)
                    THEN [j \in FrameIdx |-> 0] ELSE <<>>
    /\ choice = ""
    /\ main_pc = "loop"
    /\ viz_pc = IF IsExampleData(page_count, ref) THEN "loop" ELSE "idle"
    /\ ended = FALSE
    /\ ref_count = n
    /\ console = ""
    /\ fault_positions = <<>>
    /\ fault_rate = 0
    /\ viz_rate = 0

\* ----------------------------------------------------------------- main()
\* the membership test of the loop of main()
MainResident_never(arr, p) == FALSE
MainResident(arr, p) == is_in_array(arr, p)

\* the frame the fault path writes
MainSlot(cp, pc) == IF cp = pc THEN 0 ELSE cp

\* the write pointer after a fault that wrote frame slot
MainAdvance_stuck(slot, pc) == slot
MainAdvance(slot, pc) == (slot + 1) % pc

\* the write pointer after a reference: only the fault path moves it
MainPointer_always(hit, cp, pc) == MainAdvance(MainSlot(cp, pc), pc)
MainPointer(hit, cp, pc) ==
    IF hit THEN cp ELSE MainAdvance(MainSlot(cp, pc), pc)

\* pre_array[slot] = p
WriteFrame_all(arr, slot, p) == [j \in DOMAIN arr |-> p]
WriteFrame(arr, slot, p) == [arr EXCEPT ![slot] = p]

\* one iteration of "for i in range(n)" in main()
MainStep ==
    /\ main_pc = "loop"
    /\ i < n
    /\ LET p == ref[i + 1]
           hit == MainResident(pre_array, p)
           slot == MainSlot(current_page, page_count)
           pre == IF hit THEN pre_array ELSE WriteFrame(pre_array, slot, p)
       IN  /\ page_fault' = [page_fault EXCEPT ![i] = IF hit THEN 0 ELSE 1]
           /\ number_page_fault' =
                  IF hit THEN number_page_fault ELSE number_page_fault + 1
           /\ message' = IF hit THEN "hit"
                         ELSE IF current_page = page_count THEN "full"
                         ELSE "empty"
           /\ pre_array' = pre
           /\ current_page' = MainPointer(hit, current_page, page_count)
           /\ main_loaded' =
                  IF hit THEN main_loaded
                  ELSE [main_loaded EXCEPT ![slot] = i + 1]
           /\ total_page' = UpdateTable(total_page, pre, i)
           /\ i' = i + 1
    /\ UNCHANGED <<page_count, ref>>
    /\ UNCHANGED vizVars
    /\ UNCHANGED sessionVars

\* ----------------------------------------------- visualize_fifo_example()
\* the membership test of the example loop
VizResident(arr, p) == is_in_array(arr, p)

\* queue.pop(0): the position of the queue that is removed
QueuePopIndex_newest(q) == Len(q)
QueuePopIndex(q) == 1

\* the queue without position k
QueueWithout_keep(q, k) == q
QueueWithout(q, k) ==
    [m \in 1..(Len(q) - 1) |-> IF m < k THEN q[m] ELSE q[m + 1]]

\* one iteration of "for i, page in enumerate(ref)"
VizStep ==
    /\ viz_pc = "loop"
    /\ step < n
    /\ ~crashed
    /\ LET page == ref[step + 1]
       IN  IF VizResident(frames, page)
           THEN /\ fault' = FALSE
                /\ note' = ""
                /\ UNCHANGED <<frames, queue, page_faults, crashed, viz_loaded>>
                /\ step' = step + 1
           ELSE /\ page_faults' = page_faults + 1
                /\ fault' = TRUE
                /\ IF is_in_array(frames, Empty)
                   THEN LET empty_idx == IndexOf(frames, Empty)
                        IN  /\ frames' = [frames EXCEPT ![empty_idx] = page]
                            /\ queue' = Append(queue, page)
                            /\ note' = "add"
                            /\ viz_loaded' =
                                   [viz_loaded EXCEPT ![empty_idx] = step + 1]
                            /\ step' = step + 1
                            /\ UNCHANGED crashed
                   ELSE IF queue = <<>>
                   THEN \* queue.pop(0) raises IndexError
                        /\ crashed' = TRUE
                        /\ note' = ""
                        /\ UNCHANGED <<frames, queue, viz_loaded, step>>
                   ELSE LET oldest == queue[QueuePopIndex(queue)]
                            rest == QueueWithout(queue, QueuePopIndex(queue))
                        IN  IF ~is_in_array(frames, oldest)
                            THEN \* frames.index(oldest) raises ValueError
                                 /\ queue' = rest
                                 /\ crashed' = TRUE
                                 /\ note' = ""
                                 /\ UNCHANGED <<frames, viz_loaded, step>>
                            ELSE LET idx == IndexOf(frames, oldest)
                                 IN  /\ frames' = [frames EXCEPT ![idx] = page]
                                     /\ queue' = Append(rest, page)
                                     /\ note' = "replace"
                                     /\ viz_loaded' =
                                            [viz_loaded EXCEPT ![idx] = step + 1]
                                     /\ step' = step + 1
                                     /\ UNCHANGED crashed
    /\ UNCHANGED <<page_count, ref>>
    /\ UNCHANGED mainVars
    /\ UNCHANGED sessionVars

Next == MainStep \/ VizStep

Spec == Init /\ [][Next]_vars

\* ---------------------------------------------------------------- session
\* a token typed at a prompt: an integer literal, or text int() rejects
Num(v) == [numeric |-> TRUE, value |-> v]
Junk == [numeric |-> FALSE, value |-> 0]

\* what is typed at the prompt for the number of frames
FrameTokens ==
    {Junk} \cup {Num(v) : v \in 0..MaxFrames}
           \cup {Num(MaxFrameCount), Num(MaxFrameCount + 1)}

\* what is typed at the prompt for the number of references
CountTokens ==
    {Junk} \cup {Num(v) : v \in 0..MaxRefs}
           \cup {Num(Len(ScenarioARef)), Num(MaxRefCount), Num(MaxRefCount + 1)}

\* a line of integer literals
ToLine(r) == [k \in 1..Len(r) |-> Num(r[k])]

\* a line of MaxRefCount page ids
LongLine == [k \in 1..MaxRefCount |-> Num(k % 3)]

\* what is typed at the prompt for the reference sequence, after split()
Lines ==
    (UNION {[1..m -> {Junk} \cup {Num(v) : v \in Pages}] : m \in 0..MaxRefs})
        \cup {ToLine(ExampleRef), ToLine(ScenarioARef), LongLine}

\* what is typed at the menu
Choices == {"1", "2", "3", "x"}

\* the range test of the frame prompt
ValidFrames_zero(v) == 0 <= v /\ v <= MaxFrameCount
ValidFrames(v) == 1 <= v /\ v <= MaxFrameCount

\* the range test of the reference-count prompt
ValidCount(v) == 1 <= v /\ v <= MaxRefCount

\* [int(x) for x in ref_input] succeeds
AllNumeric(line) == \A k \in 1..Len(line) : line[k].numeric

\* (faults / m) * 100 printed with two decimals, in hundredths of a percent
FaultRate(f, m) ==
    IF m = 0 THEN "ZeroDivisionError" ELSE (20000 * f + m) \div (2 * m)

\* [str(i+1) for i in range(n) if page_fault[i] == 1]
FaultPositions(pf, m) ==
    SelectSeq([k \in 1..m |-> k], LAMBDA k : pf[k - 1] = 1)

SessionInit ==
    /\ choice = ""
    /\ main_pc = "idle"
    /\ viz_pc = "idle"
    /\ ended = FALSE
    /\ page_count = 0
    /\ ref_count = 0
    /\ ref = <<>>
    /\ console = ""
    /\ i = 0
    /\ pre_array = <<>>
    /\ page_fault = <<>>
    /\ total_page = <<>>
    /\ number_page_fault = 0
    /\ current_page = 0
    /\ message = ""
    /\ main_loaded = <<>>
    /\ step = 0
    /\ frames = <<>>
    /\ queue = <<>>
    /\ page_faults = 0
    /\ fault = FALSE
    /\ note = ""
    /\ crashed = FALSE
    /\ viz_loaded = <<>>
    /\ fault_positions = <<>>
    /\ fault_rate = 0
    /\ viz_rate = 0

\* the menu: one read, then main(), the example run or the end
Menu ==
    /\ choice = ""
    /\ ~ended
    /\ \E c \in Choices :
        /\ choice' = c
        /\ IF c = "1"
           THEN /\ main_pc' = "ask_frames"
                /\ UNCHANGED <<viz_pc, ended, page_count, ref, vizVars>>
           ELSE IF c = "2"
           THEN /\ viz_pc' = "loop"
                /\ page_count' = ExampleFrames
                /\ ref' = ExampleRef
                /\ frames' = [j \in 0..(ExampleFrames - 1) |-> Empty]
                /\ viz_loaded' = [j \in 0..(ExampleFrames - 1) |-> 0]
                /\ queue' = <<>>
                /\ page_faults' = 0
                /\ UNCHANGED <<main_pc, ended, step, fault, note, crashed>>
           ELSE /\ ended' = TRUE
                /\ UNCHANGED <<main_pc, viz_pc, page_count, ref, vizVars>>
    /\ UNCHANGED mainVars
    /\ UNCHANGED <<ref_count, console, fault_positions, fault_rate, viz_rate>>

\* the prompt "Enter number of page frames (max 10)"
AskFrames ==
    /\ main_pc = "ask_frames"
    /\ \E tok \in FrameTokens :
        IF ~tok.numeric
        THEN /\ console' = "Please enter an integer!"
             /\ UNCHANGED <<page_count, main_pc>>
        ELSE /\ page_count' = tok.value
             /\ IF ValidFrames(tok.value)
                THEN /\ main_pc' = "ask_n"
                     /\ UNCHANGED console
                ELSE /\ console' = "Please enter a number from 1 to 10!"
                     /\ UNCHANGED main_pc
    /\ UNCHANGED <<ref, ref_count, choice, viz_pc, ended,
                   fault_positions, fault_rate, viz_rate>>
    /\ UNCHANGED mainVars
    /\ UNCHANGED vizVars

\* the prompt "Enter number of references (max 20)"
AskN ==
    /\ main_pc = "ask_n"
    /\ \E tok \in CountTokens :
        IF ~tok.numeric
        THEN /\ console' = "Please enter an integer!"
             /\ UNCHANGED <<ref_count, main_pc>>
        ELSE /\ ref_count' = tok.value
             /\ IF ValidCount(tok.value)
                THEN /\ main_pc' = "ask_ref"
                     /\ UNCHANGED console
                ELSE /\ console' = "Please enter a number from 1 to 20!"
                     /\ UNCHANGED main_pc
    /\ UNCHANGED <<ref, page_count, choice, viz_pc, ended,
                   fault_positions, fault_rate, viz_rate>>
    /\ UNCHANGED mainVars
    /\ UNCHANGED vizVars

\* the prompt for the reference sequence; an accepted line is followed by
\* the initialisation of the arrays
AskRef ==
    /\ main_pc = "ask_ref"
    /\ \E line \in Lines :
        IF Len(line) # ref_count
        THEN /\ console' = "Please enter exactly n numbers!"
             /\ UNCHANGED <<ref, main_pc, mainVars>>
        ELSE IF ~AllNumeric(line)
        THEN /\ console' = "Please enter integers only!"
             /\ UNCHANGED <<ref, main_pc, mainVars>>
        ELSE /\ ref' = [k \in 1..Len(line) |-> line[k].value]
             /\ main_pc' = "loop"
             /\ pre_array' = [j \in FrameIdx |-> Empty]
             /\ page_fault' = [t \in 0..(ref_count - 1) |-> 0]
             /\ total_page' =
                    [j \in FrameIdx |-> [t \in 0..(ref_count - 1) |-> Empty]]
             /\ main_loaded' = [j \in FrameIdx |-> 0]
             /\ number_page_fault' = 0
             /\ current_page' = 0
             /\ UNCHANGED <<console, i, message>>
    /\ UNCHANGED <<page_count, ref_count, choice, viz_pc, ended,
                   fault_positions, fault_rate, viz_rate>>
    /\ UNCHANGED vizVars

\* the tables and the summary of main() after the loop; main() returns and
\* the program ends
MainSummary ==
    /\ main_pc = "loop"
    /\ i = n
    /\ fault_positions' = FaultPositions(page_fault, n)
    /\ fault_rate' = FaultRate(number_page_fault, n)
    /\ main_pc' = "done"
    /\ ended' = TRUE
    /\ UNCHANGED <<page_count, ref, ref_count, choice, viz_pc, console, viz_rate>>
    /\ UNCHANGED mainVars
    /\ UNCHANGED vizVars

\* the totals of the example run after its loop; the program ends
VizSummary ==
    /\ viz_pc = "loop"
    /\ step = n
    /\ ~crashed
    /\ viz_rate' = FaultRate(page_faults, n)
    /\ viz_pc' = "done"
    /\ ended' = TRUE
    /\ UNCHANGED <<page_count, ref, ref_count, choice, main_pc, console,
                   fault_positions, fault_rate>>
    /\ UNCHANGED mainVars
    /\ UNCHANGED vizVars

SessionNext ==
    \/ Menu
    \/ AskFrames
    \/ AskN
    \/ AskRef
    \/ MainStep
    \/ MainSummary
    \/ VizStep
    \/ VizSummary

SessionSpec == SessionInit /\ [][SessionNext]_vars

\* the loops and the summaries are straight-line code: once enabled they run
LiveSession ==
    /\ SessionSpec
    /\ WF_vars(MainStep)
    /\ WF_vars(MainSummary)
    /\ WF_vars(VizStep)
    /\ WF_vars(VizSummary)

\* ------------------------------------------------ type check under Spec
TypeOK ==
    /\ page_count \in 1..MaxFrames
    /\ i \in 0..n
    /\ step \in 0..n
    /\ current_page \in 0..page_count
    /\ number_page_fault \in 0..n
    /\ page_faults \in 0..n

\* ================================================================ claims
\* the frames of arr that hold a page
Occupied(arr) == {j \in DOMAIN arr : arr[j] # Empty}

\* every frame of arr holds a page
Full(arr) == \A j \in DOMAIN arr : arr[j] # Empty

\* no page id in two frames
NoDuplicates(arr) ==
    \A j, k \in Occupied(arr) : j # k => arr[j] # arr[k]

\* p is the content of some frame
Holds(arr, p) == \E j \in DOMAIN arr : arr[j] = p

\* p was written into a frame by a fault and not overwritten since
Loaded(arr, loaded, p) ==
    \E j \in DOMAIN arr : loaded[j] > 0 /\ arr[j] = p

\* the frame whose content was written first
OldestFrame(loaded) ==
    CHOOSE j \in DOMAIN loaded : \A k \in DOMAIN loaded : loaded[j] <= loaded[k]

Min(a, b) == IF a <= b THEN a ELSE b

\* ---------------------------------------------------------------- C1
\* C1: after any prefix of the references, in both loops, at most
\* page_count frames are occupied and no page id is in two frames.
C1_FrameSetBounded ==
    /\ Cardinality(Occupied(pre_array)) <= page_count
    /\ NoDuplicates(pre_array)
    /\ Cardinality(Occupied(frames)) <= page_count
    /\ NoDuplicates(frames)

\* both loops have replaced a page in a memory of at least two frames
C1_Witness ==
    /\ page_count >= 2
    /\ Full(pre_array) /\ number_page_fault > page_count
    /\ Full(frames) /\ page_faults > page_count

\* ---------------------------------------------------------------- C2
\* C2: in the queue-based loop, at every step boundary the arrival queue
\* holds exactly the pages of the non-empty frames, each once, oldest
\* loaded first, and is never longer than the frame count.  The loop runs
\* on its built-in data, the only input it receives.
C2_ArrivalQueueMatchesFrames ==
    ~crashed =>
        /\ {queue[m] : m \in 1..Len(queue)} = {frames[j] : j \in Occupied(frames)}
        /\ Len(queue) = Cardinality(Occupied(frames))
        /\ Len(queue) <= page_count
        /\ \A a, b \in 1..Len(queue) :
               a < b => viz_loaded[IndexOf(frames, queue[a])]
                            < viz_loaded[IndexOf(frames, queue[b])]

\* the example loop has replaced pages and its queue is full
C2_Witness ==
    /\ viz_pc = "loop" /\ note = "replace"
    /\ page_faults > page_count + 1
    /\ Len(queue) = page_count

\* ---------------------------------------------------------------- C3
\* the fault path of main() with every frame occupied overwrites exactly
\* the frame that was written first
C3_MainEvictsOldest ==
    (i' = i + 1 /\ number_page_fault' = number_page_fault + 1 /\ Full(pre_array))
        => pre_array' =
               [pre_array EXCEPT ![OldestFrame(main_loaded)] = ref[i + 1]]

\* the fault path of the queue-based loop with every frame occupied pops the
\* page that was loaded first and overwrites exactly its frame
C3_VizEvictsOldest ==
    (page_faults' = page_faults + 1 /\ Full(frames))
        => /\ queue # <<>>
           /\ queue[1] = frames[OldestFrame(viz_loaded)]
           /\ frames' =
                  [frames EXCEPT ![OldestFrame(viz_loaded)] = ref[step + 1]]

\* C3: whenever a fault occurs while every frame is occupied, the page
\* removed is the resident page that was loaded earliest and no other page
\* is removed, in main() and in the queue-based loop.
C3_FaultEvictsOldest ==
    [][C3_MainEvictsOldest /\ C3_VizEvictsOldest]_vars

\* both loops have just replaced a page in a full memory
C3_Witness ==
    /\ page_count >= 2
    /\ i > 0 /\ page_fault[i - 1] = 1 /\ number_page_fault > page_count + 1
    /\ note = "replace" /\ page_faults > page_count + 1

\* ---------------------------------------------------------------- C4
\* C4: a reference is classified as a fault iff its page is not resident
\* (loaded by an earlier fault and not overwritten since); the first
\* occurrence of every page is a fault.
C4_FaultIffNotResident ==
    [][(i' = i + 1) =>
          /\ (page_fault'[i] = 1) <=> ~Loaded(pre_array, main_loaded, ref[i + 1])
          /\ (\A m \in 1..i : ref[m] # ref[i + 1]) => page_fault'[i] = 1]_vars

\* ---------------------------------------------------------------- C5
\* C5: at the end of the run of main() the fault total is at least
\* min(page_count, number of distinct pages) and at most the length.
C5_FaultCountBounds ==
    i = n =>
        /\ Min(page_count, Cardinality({ref[k] : k \in 1..n})) <= number_page_fault
        /\ number_page_fault <= n

\* ---------------------------------------------------------------- C6
\* C6: a reference that is a hit changes no frame, not the fault counter
\* and not the eviction order (current_page in main(), queue in the
\* queue-based loop).
C6_HitChangesNothing ==
    [][/\ (i' = i + 1 /\ Holds(pre_array, ref[i + 1]))
            => /\ pre_array' = pre_array
               /\ number_page_fault' = number_page_fault
               /\ current_page' = current_page
       /\ (step' = step + 1 /\ Holds(frames, ref[step + 1]))
            => /\ frames' = frames
               /\ page_faults' = page_faults
               /\ queue' = queue]_vars

\* both loops have just served a hit from a memory that holds pages
C6_Witness ==
    /\ i > 0 /\ page_fault[i - 1] = 0 /\ message = "hit"
    /\ number_page_fault > 1 /\ current_page > 0
    /\ step > 0 /\ ~fault /\ page_faults > 1 /\ Len(queue) > 1

\* ---------------------------------------------------------------- C7
\* C7: the snapshot recorded for a step equals the frames right after the
\* step's reference was processed.
C7_SnapshotEqualsFrames ==
    i > 0 => \A j \in FrameIdx : total_page[j][i - 1] = pre_array[j]

\* ---------------------------------------------------------------- C8
\* C8: the empty marker is never a page id of an accepted reference
\* sequence: a loaded frame never looks empty, and a hit is never reported
\* because of an empty frame.
C8_EmptyMarkerDistinct ==
    /\ \A j \in FrameIdx : main_loaded[j] > 0 => pre_array[j] # Empty
    /\ \A j \in DOMAIN frames : viz_loaded[j] > 0 => frames[j] # Empty
    /\ (i > 0 /\ page_fault[i - 1] = 0)
           => Loaded(pre_array, main_loaded, ref[i])
    /\ (step > 0 /\ ~fault) => Loaded(frames, viz_loaded, ref[step])

\* ---------------------------------------------------------------- C9
\* the example run of visualize_fifo_example() has finished
ExampleDone ==
    /\ ref = ExampleRef /\ page_count = ExampleFrames
    /\ step = n /\ ~crashed

\* C9 as stated: the example run ends with exactly 9 page faults.
C9_ExampleNineFaults == ExampleDone => page_faults = 9

\* C9 amended: the example run ends with exactly 10 page faults.
C9_ExampleTenFaults == ExampleDone => page_faults = 10

C9_Witness == ExampleDone /\ note = "" /\ ~fault

\* --------------------------------------------------------------- C10
\* times of the faults of main() so far
FaultTimes == {t \in 1..i : page_fault[t - 1] = 1}

\* times of the page_count most recent faults
NewestFaults ==
    {t \in FaultTimes : Cardinality({u \in FaultTimes : u > t}) < page_count}

\* C10: on references 1 2 3 4 1 2 5 1 2 3 4 5 with 3 frames main() ends
\* with exactly 9 faults; the first three references fill the frames and
\* every later fault evicts the oldest resident page, so the resident pages
\* are always those of the most recent faults.
C10_ScenarioANineFaults ==
    (ref = ScenarioARef /\ page_count = 3) =>
        /\ i = n => number_page_fault = 9
        /\ i >= 3 => /\ Full(pre_array)
                     /\ \A t \in 0..2 : page_fault[t] = 1
        /\ {main_loaded[j] : j \in FrameIdx} \ {0} = NewestFaults

C10_Witness ==
    /\ ref = ScenarioARef /\ page_count = 3 /\ i = n
    /\ number_page_fault > page_count

\* --------------------------------------------------------------- C14
\* C14 compares two runs started on the same input.  Every action of this
\* module is a function of the state it starts from, so a second copy of
\* the variables would only repeat the same operators; no formula is given.

\* --------------------------------------------------------------- C15
\* C15: run side by side on the same input, main() and the queue-based loop
\* agree after every reference on the fault flag, on every frame and on the
\* fault total, and the queue-based loop does not abort.  The input they
\* share is the built-in data of the queue-based loop.
C15_LoopsAgree ==
    (main_pc = "loop" /\ viz_pc = "loop") =>
        /\ ~crashed
        /\ i = step =>
               /\ pre_array = frames
               /\ number_page_fault = page_faults
               /\ i > 0 => ((page_fault[i - 1] = 1) <=> fault)

\* both loops have processed the whole shared sequence, replacements included
C15_Witness ==
    /\ main_pc = "loop" /\ viz_pc = "loop"
    /\ i = n /\ step = n
    /\ number_page_fault > page_count

\* --------------------------------------------------------------- C16
\* C16: in main() a fault with every frame occupied takes the memory-full
\* branch and is reported as a replacement; "Empty frame available" is
\* reported only when the written frame was empty.
C16_FullFaultReportsReplacement ==
    [][(i' = i + 1 /\ number_page_fault' = number_page_fault + 1) =>
          /\ Full(pre_array) => message' = "full"
          /\ message' = "empty" =>
                 \A j \in FrameIdx :
                     main_loaded'[j] = i + 1 => pre_array[j] = Empty]_vars

\* --------------------------------------------------------------- C17
\* C17: with one frame a reference of main() is a fault exactly when it is
\* the first one or differs from the reference before it.
C17_SingleFrameFaults ==
    page_count = 1 =>
        \A t \in 0..(i - 1) :
            (page_fault[t] = 1) <=> (t = 0 \/ ref[t + 1] # ref[t])

\* --------------------------------------------------------------- C19
\* C19: after each step of main() min(page_count, faults so far) frames are
\* occupied, the empty frames form a suffix, and current_page is in
\* 0..page_count-1 and points at the lowest empty frame (memory not full)
\* or at the oldest resident page (memory full).
C19_OccupancyAndPointer ==
    /\ Cardinality(Occupied(pre_array)) = Min(page_count, number_page_fault)
    /\ \A j, k \in FrameIdx :
           (j < k /\ pre_array[j] = Empty) => pre_array[k] = Empty
    /\ current_page \in FrameIdx
    /\ IF Full(pre_array)
       THEN current_page = OldestFrame(main_loaded)
       ELSE /\ pre_array[current_page] = Empty
            /\ \A j \in FrameIdx : j < current_page => pre_array[j] # Empty

\* --------------------------------------------------------------- C11
\* C11: the loop of main() is never entered with an invalid configuration:
\* a prompt is left only with a value in range, nothing of the simulation
\* exists while a prompt is open, and when the loop starts
\* 1 <= page_count <= 10, 1 <= n <= 20 and len(ref) = n, all integers.
C11_LoopEnteredOnlyWhenValid ==
    /\ main_pc \in {"ask_n", "ask_ref", "loop", "done"}
           => (1 <= page_count /\ page_count <= MaxFrameCount)
    /\ main_pc \in {"ask_ref", "loop", "done"}
           => (1 <= ref_count /\ ref_count <= MaxRefCount)
    /\ main_pc \in {"loop", "done"}
           => /\ Len(ref) = ref_count
              /\ \A k \in 1..Len(ref) : ref[k] \in Int
              /\ DOMAIN pre_array = 0..(page_count - 1)
    /\ main_pc \in {"ask_frames", "ask_n", "ask_ref"}
           => /\ ref = <<>> /\ pre_array = <<>>
              /\ page_fault = <<>> /\ total_page = <<>>
              /\ i = 0 /\ number_page_fault = 0

\* the loop was entered with the largest frame count after a reference
\* line with a non-integer had been refused
C11_Witness ==
    /\ main_pc = "loop" /\ i = 0
    /\ page_count = MaxFrameCount
    /\ console = "Please enter integers only!"

\* --------------------------------------------------------------- C12
\* C12: an empty reference sequence is a valid input (a reference count of
\* 0 is not refused) and its run ends with 0 faults and a fault rate of 0.
C12_EmptySequenceAccepted ==
    /\ ~(ref_count = 0 /\ console = "Please enter a number from 1 to 20!")
    /\ (main_pc = "done" /\ ref_count = 0)
           => (number_page_fault = 0 /\ fault_rate = 0)

\* --------------------------------------------------------------- C13
\* a step of either loop takes the next reference and writes at most one
\* frame, with the page of that reference; a loop is left after its last
\* reference
C13_OneReferencePerStep ==
    /\ i' # i =>
           /\ i < n /\ i' = i + 1
           /\ Cardinality({j \in FrameIdx : pre_array'[j] # pre_array[j]}) <= 1
           /\ \A j \in FrameIdx :
                  pre_array'[j] # pre_array[j] => pre_array'[j] = ref[i + 1]
    /\ step' # step =>
           /\ step < n /\ step' = step + 1
           /\ Cardinality({j \in FrameIdx : frames'[j] # frames[j]}) <= 1
           /\ \A j \in FrameIdx :
                  frames'[j] # frames[j] => frames'[j] = ref[step + 1]
    /\ main_pc' = "done" => (i' = n /\ n = ref_count)
    /\ viz_pc' = "done" => step' = n

\* C13: once valid input is accepted the simulation terminates: each
\* reference is processed once, in order, with at most one frame write, and
\* the run finishes after len(references) steps.
C13_RunTerminates ==
    /\ (main_pc = "loop") ~> (main_pc = "done")
    /\ (viz_pc = "loop") ~> (viz_pc = "done")
    /\ [][C13_OneReferencePerStep]_vars

\* main() has finished a run of the longest accepted sequence
C13_Witness ==
    /\ main_pc = "done" /\ i = MaxRefCount
    /\ page_count >= 2 /\ number_page_fault > page_count

\* --------------------------------------------------------------- C18
\* C18: the menu is offered again after a run or a demo; the program ends
\* only once exit is chosen.
C18_EndsOnlyOnExit ==
    ended => (choice # "1" /\ choice # "2")

====
